---- MODULE Spec2Model ----
(***************************************************************************)
(* Conferencia de mercadorias (src/app_conferencia.py): a Streamlit script *)
(* that loads a store manifest (planilha), accumulates count events in     *)
(* st.session_state and mirrors them into two Postgres tables.             *)
(*                                                                         *)
(* Text is modelled as a sequence of one-character strings, so that        *)
(* str.strip() and str.lstrip("0") are computed character by character.    *)
(* A value that Python holds as None is the empty sequence <<>> when the   *)
(* value is otherwise wrapped as a one-element sequence <<v>>, and the id  *)
(* 0 for conferencia_id (the serial ids of the table start at 1).          *)
(***************************************************************************)
EXTENDS Integers, Sequences, FiniteSets, Bags, TLC

VARIABLES
    db_conf,            \* table public.conferencias_viagem: row i has id i
    db_itens,           \* table public.conferencias_viagem_itens: row i has id i
    arquivo,            \* the file held by st.file_uploader (<<>>: none)
    df_nf,              \* st.session_state.df_nf
    df_conferencia,     \* st.session_state.df_conferencia
    meta_viagem,        \* st.session_state.meta_viagem
    meta_loja,          \* st.session_state.meta_loja
    meta_data,          \* st.session_state.meta_data
    conferencia_id,     \* st.session_state.conferencia_id
    conferencia_salva,  \* st.session_state.conferencia_salva
    parse_bound,        \* is the name parse_data_viagem bound when line 107 runs
    erro,               \* how the last script run ended
    hist,               \* history of the session and of the store (see Hist0)
    calc,               \* last evaluation of a pure function (SpecFn)
    quagga,             \* the camera script of the page (SpecCamera)
    txs                 \* the sessions that share the store (SpecSessoes)

vars == <<db_conf, db_itens, arquivo, df_nf, df_conferencia, meta_viagem,
          meta_loja, meta_data, conferencia_id, conferencia_salva,
          parse_bound, erro, hist, calc, quagga, txs>>

-----------------------------------------------------------------------------
(* Bounds of the model.                                                    *)

MaxQtd == 2
MaxEventos == 2
MaxConfs == 3
MaxSessoes == 2
MaxFalhas == 1
MaxLen == 4
MaxAbs == 3
MaxDeteccoes == 4
MaxTempo == 3000
MaxContagens == 3
MaxRecargas == 2

-----------------------------------------------------------------------------
(* Text.                                                                   *)

\* str.lstrip(ch) for a one-character ch
RECURSIVE lstrip(_, _)
lstrip(s, ch) ==
    IF s # <<>> /\ Head(s) = ch THEN lstrip(Tail(s), ch) ELSE s

\* str.rstrip(ch) for a one-character ch
RECURSIVE rstrip(_, _)
rstrip(s, ch) ==
    IF s # <<>> /\ s[Len(s)] = ch THEN rstrip(SubSeq(s, 1, Len(s) - 1), ch) ELSE s

\* str.strip(): whitespace off both ends
strip(s) == rstrip(lstrip(s, " "), " ")

\* line 618: codigo_digitado.strip().lstrip("0")
codigo_digitado_norm(codigo_digitado) == lstrip(strip(codigo_digitado), "0")

\* line 296: df[col_cod_sap].astype(str).str.strip()
codigo_original(cel) == strip(cel)

\* line 297: df[col_cod_sap].astype(str).str.lstrip("0").str.strip()
codigo_planilha(cel) == strip(lstrip(cel, "0"))

-----------------------------------------------------------------------------
(* Status.                                                                 *)

OK == "OK"
FALTANDO == "FALTANDO"
SOBRANDO == "SOBRANDO"
SOBRANDO_FORA == "SOBRANDO (nao estava na planilha)"

\* the db classifier with the generic difference test taken first
calcular_status_db_m(qtd_prevista, qtd_contada) ==
    LET diferenca == qtd_contada - qtd_prevista IN
    IF diferenca = 0 THEN OK
    ELSE IF diferenca > 0 THEN SOBRANDO
    ELSE FALTANDO

\* lines 157-166
calcular_status_db(qtd_prevista, qtd_contada) ==
    LET diferenca == qtd_contada - qtd_prevista IN
    IF qtd_prevista = 0 /\ qtd_contada > 0 THEN SOBRANDO_FORA
    ELSE IF diferenca = 0 THEN OK
    ELSE IF diferenca > 0 THEN SOBRANDO
    ELSE FALTANDO

\* lines 680-688: row carries qtd_prevista, qtd_contada and diferenca
classificar_status(row) ==
    IF row.qtd_prevista = 0 /\ row.qtd_contada > 0 THEN SOBRANDO_FORA
    ELSE IF row.diferenca = 0 THEN OK
    ELSE IF row.diferenca > 0 THEN SOBRANDO
    ELSE FALTANDO

\* lines 677-690: df_parcial, the working set with diferenca and status
linha_parcial(l) ==
    LET d == l.qtd_contada - l.qtd_prevista IN
    [codigo |-> l.codigo, descricao |-> l.descricao,
     qtd_prevista |-> l.qtd_prevista, qtd_contada |-> l.qtd_contada,
     diferenca |-> d,
     status |-> classificar_status(
         [qtd_prevista |-> l.qtd_prevista, qtd_contada |-> l.qtd_contada,
          diferenca |-> d])]

df_parcial(df_conf) == [i \in 1..Len(df_conf) |-> linha_parcial(df_conf[i])]

-----------------------------------------------------------------------------
(* Dates.  A date text is a record of the day, month and year it spells    *)
(* and the two separators between them; ND spells "N/D".                   *)

NULL == [dia |-> 0, mes |-> 0, ano |-> 0]
ND == [dia |-> 0, mes |-> 0, ano |-> 0, sep1 |-> "N/D", sep2 |-> ""]

dias_do_mes(mes, ano) ==
    IF mes \in {4, 6, 9, 11} THEN 30
    ELSE IF mes = 2
         THEN (IF ano % 4 = 0 /\ (ano % 100 # 0 \/ ano % 400 = 0) THEN 29 ELSE 28)
         ELSE 31

\* lines 802-814: "%d-%m-%Y", then "%d/%m/%Y", else None
parse_data_viagem(data_str) ==
    IF data_str = ND THEN NULL
    ELSE IF /\ data_str.sep1 = data_str.sep2
            /\ data_str.sep1 \in {"-", "/"}
            /\ data_str.mes \in 1..12
            /\ data_str.dia \in 1..dias_do_mes(data_str.mes, data_str.ano)
         THEN [dia |-> data_str.dia, mes |-> data_str.mes, ano |-> data_str.ano]
         ELSE NULL

-----------------------------------------------------------------------------
(* Persistence: the two tables.                                            *)

Max(S) == CHOOSE x \in S : \A y \in S : y <= x

\* the select with a date filter that a null date switches off
conferencias_iguais_m(tab, viagem, loja, data_viagem) ==
    {i \in 1..Len(tab) : /\ tab[i].viagem = viagem
                         /\ tab[i].loja = loja
                         /\ (data_viagem = NULL \/ tab[i].data_viagem = data_viagem)}

\* lines 112-121: the rows the select matches
conferencias_iguais(tab, viagem, loja, data_viagem) ==
    {i \in 1..Len(tab) : /\ tab[i].viagem = viagem
                         /\ tab[i].loja = loja
                         /\ tab[i].data_viagem = data_viagem}

\* lines 107-133: the newest row of the identity, or a new row
obter_ou_criar_conferencia(tab, viagem, loja, data_viagem_str) ==
    LET data_viagem == parse_data_viagem(data_viagem_str)
        achadas == conferencias_iguais(tab, viagem, loja, data_viagem)
    IN  IF achadas # {}
        THEN [tab |-> tab, id |-> Max(achadas)]
        ELSE [tab |-> Append(tab, [viagem |-> viagem, loja |-> loja,
                                   data_viagem |-> data_viagem]),
              id |-> Len(tab) + 1]

\* lines 145-149: ids of the rows of one conference, in table order
ids_itens(itens, id) == {i \in 1..Len(itens) : itens[i].conferencia_id = id}

RECURSIVE em_ordem(_, _)
em_ordem(itens, S) ==
    IF S = {} THEN <<>>
    ELSE LET i == CHOOSE x \in S : \A y \in S : x <= y
         IN  <<itens[i]>> \o em_ordem(itens, S \ {i})

\* lines 137-155: the rows of one conference; the select has no ORDER BY, so
\* the rows come in an order ord the store chooses
carregar_itens_conferencia(itens, id, ord) ==
    LET rows == em_ordem(itens, ids_itens(itens, id))
    IN  [i \in 1..Len(rows) |-> rows[ord[i]]]

\* lines 179-185: the rows the select of registrar_contagem_db matches
itens_do_codigo(itens, id, codigo) ==
    {i \in 1..Len(itens) : itens[i].conferencia_id = id /\ itens[i].codigo = codigo}

\* registrar_contagem_db without the select: every call inserts a row
registrar_contagem_db_ins(itens, id, codigo, descricao, qtd_prevista, qtd_add, item_id) ==
    Append(itens,
        [conferencia_id |-> id, codigo |-> codigo, descricao |-> descricao,
         qtd_prevista |-> qtd_prevista, qtd_contada |-> qtd_add,
         diferenca |-> qtd_add - qtd_prevista,
         status |-> calcular_status_db(qtd_prevista, qtd_add)])

\* registrar_contagem_db with an update that sets the counted quantity only
registrar_contagem_db_qtd(itens, id, codigo, descricao, qtd_prevista, qtd_add, item_id) ==
    IF item_id # 0
    THEN [itens EXCEPT ![item_id].qtd_contada = @ + qtd_add]
    ELSE Append(itens,
             [conferencia_id |-> id, codigo |-> codigo, descricao |-> descricao,
              qtd_prevista |-> qtd_prevista, qtd_contada |-> qtd_add,
              diferenca |-> qtd_add - qtd_prevista,
              status |-> calcular_status_db(qtd_prevista, qtd_add)])

\* registrar_contagem_db with an update whose where names the conference only
registrar_contagem_db_conf(itens, id, codigo, descricao, qtd_prevista, qtd_add, item_id) ==
    IF item_id # 0
    THEN [r \in 1..Len(itens) |->
            IF itens[r].conferencia_id = id
            THEN LET nova_qtd == itens[r].qtd_contada + qtd_add
                 IN  [itens[r] EXCEPT
                         !.qtd_contada = nova_qtd, !.qtd_prevista = qtd_prevista,
                         !.diferenca = nova_qtd - qtd_prevista,
                         !.status = calcular_status_db(qtd_prevista, nova_qtd)]
            ELSE itens[r]]
    ELSE Append(itens,
             [conferencia_id |-> id, codigo |-> codigo, descricao |-> descricao,
              qtd_prevista |-> qtd_prevista, qtd_contada |-> qtd_add,
              diferenca |-> qtd_add - qtd_prevista,
              status |-> calcular_status_db(qtd_prevista, qtd_add)])

\* lines 168-211: item_id is the row fetchone returned, 0 when there is none
registrar_contagem_db(itens, id, codigo, descricao, qtd_prevista, qtd_add, item_id) ==
    IF item_id # 0
    THEN LET nova_qtd == itens[item_id].qtd_contada + qtd_add
         IN  [itens EXCEPT ![item_id] =
                 [@ EXCEPT !.qtd_contada = nova_qtd, !.qtd_prevista = qtd_prevista,
                           !.diferenca = nova_qtd - qtd_prevista,
                           !.status = calcular_status_db(qtd_prevista, nova_qtd)]]
    ELSE LET nova_qtd == qtd_add
         IN  Append(itens,
                 [conferencia_id |-> id, codigo |-> codigo, descricao |-> descricao,
                  qtd_prevista |-> qtd_prevista, qtd_contada |-> nova_qtd,
                  diferenca |-> nova_qtd - qtd_prevista,
                  status |-> calcular_status_db(qtd_prevista, nova_qtd)])

\* lines 835-845: the rows of one snapshot
linhas_snapshot(df_resultado, id) ==
    [i \in 1..Len(df_resultado) |->
        [conferencia_id |-> id, codigo |-> df_resultado[i].codigo,
         descricao |-> df_resultado[i].descricao,
         qtd_prevista |-> df_resultado[i].qtd_prevista,
         qtd_contada |-> df_resultado[i].qtd_contada,
         diferenca |-> df_resultado[i].diferenca,
         status |-> df_resultado[i].status]]

\* salvar_conferencia_supabase reusing the newest header of the identity
salvar_conferencia_supabase_m(tab, itens, df_resultado, viagem, loja, data_viagem_str) ==
    LET r == obter_ou_criar_conferencia(tab, viagem, loja, data_viagem_str)
    IN  [tab |-> r.tab, itens |-> itens \o linhas_snapshot(df_resultado, r.id),
         id |-> r.id]

\* lines 816-856: one new header, then one row per line of df_resultado
salvar_conferencia_supabase(tab, itens, df_resultado, viagem, loja, data_viagem_str) ==
    LET data_viagem == parse_data_viagem(data_viagem_str)
        id == Len(tab) + 1
    IN  [tab |-> Append(tab, [viagem |-> viagem, loja |-> loja,
                              data_viagem |-> data_viagem]),
         itens |-> itens \o linhas_snapshot(df_resultado, id),
         id |-> id]

-----------------------------------------------------------------------------
(* The manifest parser.  An uploaded file is a record: cab holds the cells  *)
(* of the row that names the columns of the sheet's table; viagem,         *)
(* loja and data are the values after the ":" of the first row (<<>> when  *)
(* the label is absent); linhas are the cells of the rows under the       *)
(* header: cod (text), desc (a whole string) and qtd (num says whether     *)
(* pd.to_numeric reads a number, val is that number).                      *)

NAN == <<"n", "a", "n">>
NAO_CADASTRADO == "NAO CADASTRADO NA PLANILHA"
ND_TXT == "N/D"

\* str.upper() on the letters the model's texts use
maiuscula(ch) ==
    CASE ch = "c" -> "C" [] ch = "o" -> "O" [] ch = "d" -> "D"
      [] ch = "s" -> "S" [] ch = "a" -> "A" [] ch = "p" -> "P"
      [] ch = "n" -> "N" [] ch = "e" -> "E" [] ch = "r" -> "R"
      [] ch = "i" -> "I" [] ch = "q" -> "Q" [] ch = "t" -> "T"
      [] ch = "l" -> "L" [] ch = "g" -> "G" [] OTHER -> ch

\* str.lower() on the letters the model's texts use
minuscula(ch) ==
    CASE ch = "C" -> "c" [] ch = "O" -> "o" [] ch = "D" -> "d"
      [] ch = "S" -> "s" [] ch = "A" -> "a" [] ch = "P" -> "p"
      [] ch = "N" -> "n" [] ch = "E" -> "e" [] ch = "R" -> "r"
      [] ch = "I" -> "i" [] ch = "Q" -> "q" [] ch = "T" -> "t"
      [] ch = "L" -> "l" [] ch = "G" -> "g" [] OTHER -> ch

upper(s) == [i \in 1..Len(s) |-> maiuscula(s[i])]
lower(s) == [i \in 1..Len(s) |-> minuscula(s[i])]

\* str.contains(sub)
contem(s, sub) ==
    \E i \in 0..(Len(s) - Len(sub)) : SubSeq(s, i + 1, i + Len(sub)) = sub

CODSAP == <<"C", "O", "D", "S", "A", "P">>

\* line 311 and lines 317, 326 on the descriptions the model uses
desc_contem_descri(desc) == desc \in {"Descricao", "DESCRICAO"}
desc_nan(desc) == desc \in {"nan", "NaN"}

\* lines 295-300: one row of df_nf
linha_nf(r) ==
    [codigo_original |-> codigo_original(r.cod),
     codigo |-> codigo_planilha(r.cod),
     descricao |-> r.desc,
     qtd_prevista |-> IF r.qtd.num THEN r.qtd.val ELSE 0]

\* lines 307-326: the rows the cleaning keeps
linha_valida(l) ==
    /\ ~contem(upper(l.codigo_original), CODSAP)
    /\ ~desc_contem_descri(l.descricao)
    /\ strip(l.codigo) # <<>>
    /\ ~desc_nan(l.descricao)
    /\ lower(l.codigo) # NAN
    /\ ~(l.qtd_prevista = 0 /\ desc_nan(l.descricao))

RECURSIVE filtrar(_)
filtrar(ls) ==
    IF ls = <<>> THEN <<>>
    ELSE (IF linha_valida(Head(ls)) THEN <<Head(ls)>> ELSE <<>>) \o filtrar(Tail(ls))

DESCRI == <<"D", "E", "S", "C", "R", "I">>
QTDE == <<"Q", "T", "D", "E">>
REAL == <<"R", "E", "A", "L">>

\* lines 254-260: the rows with "CodSap" in a cell, whatever the case
header_row_candidates(f) ==
    {i \in 1..Len(f.cab) : contem(lower(f.cab[i]), lower(CODSAP))}

\* lines 276-282: the columns whose name holds busca and not excluir
achar_coluna(f, busca, excluir) ==
    {i \in 1..Len(f.cab) :
        /\ contem(upper(strip(f.cab[i])), upper(busca))
        /\ excluir = <<>> \/ ~contem(upper(strip(f.cab[i])), upper(excluir))}

\* the parser reading any file as a manifest
erro_planilha_m(f) == FALSE

\* lines 261-262 and 288-293: the two ValueError of the parser
erro_planilha(f) ==
    \/ header_row_candidates(f) = {}
    \/ achar_coluna(f, CODSAP, <<>>) = {}
    \/ achar_coluna(f, DESCRI, <<>>) = {}
    \/ achar_coluna(f, QTDE, REAL) = {}

\* lines 216-331
carregar_planilha_nf(f) ==
    [erro |-> erro_planilha(f),
     df_nf |-> filtrar([i \in 1..Len(f.linhas) |-> linha_nf(f.linhas[i])]),
     meta_viagem |-> f.viagem,
     meta_loja |-> f.loja,
     meta_data |-> f.data]

-----------------------------------------------------------------------------
(* The merge of the manifest with the rows already in the store.           *)

\* lines 401-405: df_nf.merge(df_itens_db[["codigo", "qtd_contada"]],
\* on="codigo", how="left"): the qtd_contada column of the result, one entry
\* per matching row of the right side, one entry 0 (NaN filled) when none
RECURSIVE merge_qtd(_, _)
merge_qtd(nf, itens_db) ==
    IF nf = <<>> THEN <<>>
    ELSE LET pares == SelectSeq(itens_db, LAMBDA r : r.codigo = Head(nf).codigo)
             col == [i \in 1..Len(pares) |-> pares[i].qtd_contada]
         IN  (IF col = <<>> THEN <<0>> ELSE col) \o merge_qtd(Tail(nf), itens_db)

\* lines 394-421: df_conf
inicializar(nf, itens_db) ==
    LET codigos_nf == {nf[i].codigo : i \in 1..Len(nf)}
        col == merge_qtd(nf, itens_db)
        base == [i \in 1..Len(nf) |->
                    [codigo_original |-> nf[i].codigo_original,
                     codigo |-> nf[i].codigo,
                     descricao |-> nf[i].descricao,
                     qtd_prevista |-> nf[i].qtd_prevista,
                     qtd_contada |-> IF itens_db = <<>> THEN 0 ELSE col[i]]]
        extra == SelectSeq(itens_db, LAMBDA r : r.codigo \notin codigos_nf)
    IN  base \o [i \in 1..Len(extra) |->
                    [codigo_original |-> NAN,
                     codigo |-> extra[i].codigo,
                     descricao |-> extra[i].descricao,
                     qtd_prevista |-> 0,
                     qtd_contada |-> extra[i].qtd_contada]]

-----------------------------------------------------------------------------
(* Inputs: the files a user uploads and the codes a user types or scans.   *)

Num(n) == [num |-> TRUE, val |-> n]
NaoNum == [num |-> FALSE, val |-> 0]
D25 == [dia |-> 25, mes |-> 11, ano |-> 2025, sep1 |-> "-", sep2 |-> "-"]
L007 == [cod |-> <<"0", "0", "7">>, desc |-> "Widget", qtd |-> Num(2)]
L7 == [cod |-> <<"7">>, desc |-> "Widget", qtd |-> Num(1)]
L_07 == [cod |-> <<" ", "0", "7">>, desc |-> "Widget", qtd |-> Num(2)]
L8 == [cod |-> <<"8">>, desc |-> "Gadget", qtd |-> Num(1)]
L8z == [cod |-> <<"8">>, desc |-> "Gadget", qtd |-> NaoNum]
L0 == [cod |-> <<"0", "0">>, desc |-> "Widget", qtd |-> Num(1)]
L9n == [cod |-> <<"9">>, desc |-> "Gadget", qtd |-> Num(0 - 1)]
LCab == [cod |-> <<"C", "o", "d", "S", "a", "p">>, desc |-> "Descricao", qtd |-> NaoNum]

\* header rows: the store's layout, the same in capitals, one without the
\* quantity column (only "Qtde Real"), one of another sheet
CabLoja ==
    << <<"C", "o", "d", "S", "a", "p">>, <<"D", "e", "s", "c", "r", "i", "c", "a", "o">>,
       <<"Q", "t", "d", "e">>, <<"Q", "t", "d", "e", " ", "R", "e", "a", "l">> >>
CabMaiuscula ==
    << <<"C", "O", "D", "S", "A", "P">>, <<"D", "E", "S", "C", "R", "I", "C", "A", "O">>,
       <<" ", "Q", "T", "D", "E">> >>
CabSemQtde ==
    << <<"C", "o", "d", "S", "a", "p">>, <<"D", "e", "s", "c", "r", "i", "c", "a", "o">>,
       <<"Q", "t", "d", "e", " ", "R", "e", "a", "l">> >>
CabOutra ==
    << <<"C", "o", "d", "i", "g", "o">>, <<"D", "e", "s", "c", "r", "i", "c", "a", "o">>,
       <<"Q", "t", "d", "e">> >>

Planilha(cab, data, linhas) ==
    [cab |-> cab, viagem |-> <<"4711">>, loja |-> <<"L001">>,
     data |-> data, linhas |-> linhas]

Planilhas ==
    { Planilha(CabLoja, <<D25>>, <<L007, L8>>),
      Planilha(CabLoja, <<D25>>, <<L007, L7>>),
      Planilha(CabMaiuscula, <<D25>>, <<L_07>>),
      Planilha(CabLoja, <<>>, <<L8z, LCab, L0, L9n>>),
      Planilha(CabOutra, <<D25>>, <<L007>>),
      Planilha(CabSemQtde, <<D25>>, <<L007>>) }

Digitados ==
    { <<"7">>, <<" ", "0", "7", " ">>, <<"9">>, <<"0">>, <<" ">>, <<>> }

\* line 467: min_value of the quantity widget
min_value == 1

\* the quantities a user may try to enter in the quantity widget
Entradas == (0 - 1)..MaxQtd

\* the quantity widget without min_value
qtd_aceita_m(entrada) == TRUE

\* lines 465-471: st.number_input(min_value=1) hands the script no value
\* below min_value
qtd_aceita(entrada) == entrada >= min_value

\* lines 369-373: what carregar_planilha_nf returns for each file
planilhas_lidas == [f \in Planilhas |-> carregar_planilha_nf(f)]

-----------------------------------------------------------------------------
(* State.                                                                  *)

NoneData == [dia |-> 0, mes |-> 0, ano |-> 0, sep1 |-> "None", sep2 |-> ""]

\* hist records what the claims speak about and the code does not keep:
\*   sessoes    sessions opened so far
\*   n_eventos  clicks on the add button so far
\*   n_falhas   calls of the store that raised so far
\*   eventos    bag of the <<normalized code, quantity>> the session added in memory
\*   fresca     the session's upload found no rows in the store
\*   falha_bd   a call of registrar_contagem_db of the session failed
\*   primeiro   per identity, the id its first obter_ou_criar_conferencia returned
\*   salvos     per save: the id, the working set saved and the rows inserted
\*   ult        what the last click on the add button did
Ult0 == [tipo |-> "nenhum", codigo |-> <<>>, qtd |-> 0, gravou |-> FALSE]
Hist0 ==
    [sessoes |-> 1, n_eventos |-> 0, n_falhas |-> 0, eventos |-> EmptyBag, fresca |-> FALSE,
     falha_bd |-> FALSE, primeiro |-> {}, salvos |-> <<>>, ult |-> Ult0]

Calc0 == [op |-> "nenhum", txt |-> <<>>, n1 |-> <<>>, n2 |-> <<>>, p1 |-> <<>>,
          prev |-> 0, cont |-> 0, mem |-> "", bd |-> "",
          tab |-> <<>>, viagem |-> "", loja |-> "", data_viagem |-> NULL,
          id |-> 0, tab2 |-> <<>>]

\* lines 583-584: the camera script when the page has loaded: no code seen,
\* no timer pending, the code input as the page drew it
Quagga0 == [lastCode |-> "", timers |-> <<>>, agora |-> 0, input |-> "", log |-> <<>>]

\* the sessions that share the store, each with a new st.session_state:
\*   pc      where the session's script run is: "inicio" (no manifest),
\*           "inserir" (line 121 found no header), "carregar" (line 388 done),
\*           "pronta" (upload block done), "gravar" (line 185 done)
\*   lido    what the select of the transaction in progress returned
\*   carga   the rows line 391 loaded and the working set built from them
\* and what the claims speak about:
\*   corrida    two calls of obter_ou_criar_conferencia overlapped: both ran
\*              their select before either ran its insert
\*   correu     both of those calls have completed
\*   depois     the ids returned by the calls that started after that
\*   apos       the sessions whose load started after that
\*   sobrepos   two transactions of registrar_contagem_db for one row overlapped
\*   salvou     a snapshot was saved
\*   total      bag of the <<id, code>> of every quantity unit committed
Reg0 == [codigo |-> <<>>, descricao |-> "", qtd_prevista |-> 0, qtd_add |-> 0,
         item_id |-> 0, qtd_atual |-> 0]
Sessao0 == [pc |-> "inicio", conferencia_id |-> 0, df |-> <<>>, lido |-> Reg0,
            carga |-> <<>>]
Txs0 == [ses |-> [s \in 1..2 |-> Sessao0], n_contagens |-> 0, n_recargas |-> 0,
         corrida |-> FALSE, correu |-> FALSE, depois |-> {}, apos |-> {}, sobrepos |-> FALSE,
         salvou |-> FALSE, total |-> EmptyBag]

\* lines 25-26 and 336-349: a new st.session_state
SessaoInicial ==
    /\ arquivo = <<>>
    /\ df_nf = <<>>
    /\ df_conferencia = <<>>
    /\ meta_viagem = "None"
    /\ meta_loja = "None"
    /\ meta_data = NoneData
    /\ conferencia_id = 0
    /\ conferencia_salva = FALSE

InitComum ==
    /\ db_conf = <<>>
    /\ db_itens = <<>>
    /\ SessaoInicial
    /\ erro = "ok"
    /\ hist = Hist0
    /\ calc = Calc0
    /\ quagga = Quagga0
    /\ txs = Txs0

\* the script as Streamlit runs it: line 383 runs before the def of line 802
Init == InitComum /\ parse_bound = FALSE

\* the same script with parse_data_viagem bound when line 107 runs
InitDef == InitComum /\ parse_bound = TRUE

sessao == <<arquivo, df_nf, df_conferencia, meta_viagem, meta_loja, meta_data,
            conferencia_id, conferencia_salva>>

\* x or "N/D" (lines 376-378, 434-436)
ou_nd(x) == IF x = <<>> \/ x = <<"">> THEN ND_TXT ELSE x[1]
data_ou_nd(x) == IF x = <<>> THEN ND ELSE x[1]

-----------------------------------------------------------------------------
(* Script runs.                                                            *)

\* lines 359-373 and 423-425 of a run that finds no manifest in the session:
\* without a file the run stops at line 425; with one, the upload block runs
\* again on the file that did not parse
RunSemPlanilha ==
    /\ df_nf = <<>>
    /\ IF arquivo = <<>>
       THEN erro' = "stop" /\ UNCHANGED conferencia_salva
       ELSE erro' = "ParseError" /\ conferencia_salva' = FALSE
    /\ UNCHANGED <<db_conf, db_itens, arquivo, df_nf, df_conferencia, meta_viagem,
                   meta_loja, meta_data, conferencia_id, parse_bound, calc, quagga, txs>>

\* lines 620 and 677 of a run whose session holds df_nf and no df_conferencia:
\* df_conf is None, so df_conf["codigo"] or df_conf.copy() raises
RunSemConferencia(contando) ==
    /\ df_nf # <<>>
    /\ df_conferencia = <<>>
    /\ erro' = IF contando THEN "TypeError" ELSE "AttributeError"
    /\ UNCHANGED <<db_conf, db_itens, sessao, parse_bound, calc, quagga, txs>>

identidade(v, l, d) == [viagem |-> v, loja |-> l, data |-> d]

primeiro_de(h, v, l, d, id) ==
    IF \E e \in h.primeiro : e.de = identidade(v, l, d)
    THEN h.primeiro
    ELSE h.primeiro \cup {[de |-> identidade(v, l, d), id |-> id]}

\* lines 359-421: the run a new file in the uploader starts, in a session
\* that holds no manifest yet (with one, line 359 skips the block)
CarregarPlanilha(f) ==
    /\ df_nf = <<>>
    /\ arquivo' = <<f>>
    /\ UNCHANGED <<parse_bound, calc, quagga, txs>>
    /\ LET p == planilhas_lidas[f]
           v == ou_nd(p.meta_viagem)
           l == ou_nd(p.meta_loja)
           d == data_ou_nd(p.meta_data)
       IN
       /\ conferencia_salva' = FALSE
       /\ IF p.erro
          THEN /\ erro' = "ParseError"
               /\ UNCHANGED <<db_conf, db_itens, df_nf, df_conferencia, meta_viagem,
                              meta_loja, meta_data, conferencia_id, hist>>
          ELSE
          /\ df_nf' = <<p.df_nf>>
          /\ meta_viagem' = v
          /\ meta_loja' = l
          /\ meta_data' = d
          /\ UNCHANGED db_itens
          /\ IF ~parse_bound
             THEN /\ erro' = "NameError"
                  /\ UNCHANGED <<db_conf, df_conferencia, conferencia_id, hist>>
             ELSE
             \E bd \in (IF hist.n_falhas < MaxFalhas
                        THEN {"ok", "falha_obter", "falha_carregar"} ELSE {"ok"}) :
                IF bd = "falha_obter"
                THEN /\ erro' = "BD"
                     /\ hist' = [hist EXCEPT !.n_falhas = @ + 1]
                     /\ UNCHANGED <<db_conf, df_conferencia, conferencia_id>>
                ELSE
                LET r == obter_ou_criar_conferencia(db_conf, v, l, d)
                    n == Cardinality(ids_itens(db_itens, r.id))
                IN
                /\ Len(r.tab) <= MaxConfs
                /\ db_conf' = r.tab
                /\ conferencia_id' = r.id
                /\ IF bd = "falha_carregar"
                   THEN /\ erro' = "BD"
                        /\ df_conferencia' = df_conferencia
                        /\ hist' = [hist EXCEPT
                               !.n_falhas = @ + 1,
                               !.primeiro = primeiro_de(hist, v, l, d, r.id)]
                   ELSE
                   \E ord \in Permutations(1..n) :
                      LET df_itens_db == carregar_itens_conferencia(db_itens, r.id, ord)
                      IN
                      /\ df_conferencia' = <<inicializar(p.df_nf, df_itens_db)>>
                      /\ erro' = "ok"
                      /\ hist' = [hist EXCEPT
                             !.primeiro = primeiro_de(hist, v, l, d, r.id),
                             !.fresca = (df_itens_db = <<>>)]


Min(S) == CHOOSE x \in S : \A y \in S : x <= y

\* the count block replacing the counted quantity instead of adding to it
somar_contagem_m(df_conf, idx, qtd_lida) ==
    [df_conf EXCEPT ![idx].qtd_contada = qtd_lida]

\* line 624: df_conferencia.loc[idx, "qtd_contada"] += int(qtd_lida)
somar_contagem(df_conf, idx, qtd_lida) ==
    [df_conf EXCEPT ![idx].qtd_contada = @ + qtd_lida]

\* the surplus row with the quantity of the manifest rows (zero counted)
nova_linha_m(codigo_digitado, qtd_lida) ==
    [codigo_original |-> strip(codigo_digitado),
     codigo |-> codigo_digitado_norm(codigo_digitado),
     descricao |-> NAO_CADASTRADO,
     qtd_prevista |-> 0,
     qtd_contada |-> 0]

\* lines 641-647
nova_linha(codigo_digitado, qtd_lida) ==
    [codigo_original |-> strip(codigo_digitado),
     codigo |-> codigo_digitado_norm(codigo_digitado),
     descricao |-> NAO_CADASTRADO,
     qtd_prevista |-> 0,
     qtd_contada |-> qtd_lida]

\* what a click on the add button adds to hist
hist_contagem(tipo, codigo, qtd_lida, somou, gravou) ==
    [hist EXCEPT
        !.n_eventos = @ + 1,
        !.n_falhas = IF somou /\ ~gravou THEN @ + 1 ELSE @,
        !.eventos = IF somou THEN @ (+) SetToBag({<<codigo, qtd_lida>>}) ELSE @,
        !.falha_bd = @ \/ (somou /\ ~gravou),
        !.ult = [tipo |-> tipo, codigo |-> codigo, qtd |-> qtd_lida,
                 gravou |-> gravou]]

\* the outcomes of one call of the store: it commits (TRUE) or it raises
Gravacoes == IF hist.n_falhas < MaxFalhas THEN BOOLEAN ELSE {TRUE}

\* the auto-save with a store that keeps the write of a call that raised and
\* a count block that swallows the exception
AutoSave_m(tipo, codigo, descricao, qtd_prevista, qtd_lida) ==
    LET achados == itens_do_codigo(db_itens, conferencia_id, codigo) IN
    \E gravou \in Gravacoes :
    \E item_id \in (IF achados = {} THEN {0} ELSE achados) :
       /\ db_itens' = registrar_contagem_db(db_itens, conferencia_id, codigo,
                           descricao, qtd_prevista, qtd_lida, item_id)
       /\ erro' = "ok"
       /\ hist' = hist_contagem(tipo, codigo, qtd_lida, TRUE, gravou)

\* lines 629-636 and 655-662: the auto-save of one count.  The transaction of
\* registrar_contagem_db commits (gravou) or raises, and the exception ends the
\* run; item_id is the row fetchone returns, 0 when the select matches none
AutoSave(tipo, codigo, descricao, qtd_prevista, qtd_lida) ==
    IF conferencia_id = 0
    THEN /\ erro' = "ok"
         /\ UNCHANGED db_itens
         /\ hist' = hist_contagem(tipo, codigo, qtd_lida, TRUE, TRUE)
    ELSE
    LET achados == itens_do_codigo(db_itens, conferencia_id, codigo) IN
    \E gravou \in Gravacoes :
    \E item_id \in (IF achados = {} \/ ~gravou THEN {0} ELSE achados) :
       /\ db_itens' = IF gravou
                      THEN registrar_contagem_db(db_itens, conferencia_id, codigo,
                               descricao, qtd_prevista, qtd_lida, item_id)
                      ELSE db_itens
       /\ erro' = IF gravou THEN "ok" ELSE "BD"
       /\ hist' = hist_contagem(tipo, codigo, qtd_lida, TRUE, gravou)

\* the guard without the strip: only the empty text is turned away
codigo_vazio_m(codigo_digitado) == codigo_digitado = <<>>

\* line 616: codigo_digitado.strip() != "" fails
codigo_vazio(codigo_digitado) == strip(codigo_digitado) = <<>>

\* lines 465-471 and 616-667: the run a click on the add button starts, with
\* the quantity the widget hands over
LancarContagem(codigo_digitado, qtd_lida) ==
    /\ qtd_aceita(qtd_lida)
    /\ hist.n_eventos < MaxEventos
    /\ IF df_nf = <<>>
       THEN /\ RunSemPlanilha
            /\ hist' = hist_contagem("parado", <<>>, qtd_lida, FALSE, FALSE)
       ELSE
       IF df_conferencia = <<>>
       THEN /\ RunSemConferencia(~codigo_vazio(codigo_digitado))
            /\ hist' = hist_contagem("parado", <<>>, qtd_lida, FALSE, FALSE)
       ELSE
       /\ UNCHANGED <<db_conf, arquivo, df_nf, meta_viagem, meta_loja, meta_data,
                      conferencia_id, conferencia_salva, parse_bound, calc, quagga, txs>>
       /\ IF codigo_vazio(codigo_digitado)
          THEN /\ erro' = "ok"
               /\ hist' = hist_contagem("vazio", <<>>, qtd_lida, FALSE, FALSE)
               /\ UNCHANGED <<db_itens, df_conferencia>>
          ELSE
          LET df_conf == df_conferencia[1]
              norm == codigo_digitado_norm(codigo_digitado)
              mask == {i \in 1..Len(df_conf) : df_conf[i].codigo = norm}
          IN
          IF mask # {}
          THEN LET idx == Min(mask) IN
               /\ df_conferencia' = <<somar_contagem(df_conf, idx, qtd_lida)>>
               /\ AutoSave("existente", norm, df_conf[idx].descricao,
                           df_conf[idx].qtd_prevista, qtd_lida)
          ELSE /\ df_conferencia' =
                      <<Append(df_conf, nova_linha(codigo_digitado, qtd_lida))>>
               /\ AutoSave("novo", norm, NAO_CADASTRADO, 0, qtd_lida)

\* lines 858-873: the run a click on the save button starts
SalvarConferencia ==
    /\ Len(db_conf) < MaxConfs
    /\ IF df_nf = <<>>
       THEN RunSemPlanilha /\ UNCHANGED hist
       ELSE
       IF df_conferencia = <<>>
       THEN RunSemConferencia(FALSE) /\ UNCHANGED hist
       ELSE
       /\ UNCHANGED <<arquivo, df_nf, df_conferencia, meta_viagem, meta_loja,
                      meta_data, conferencia_id, parse_bound, calc, quagga, txs>>
       /\ \E gravou \in Gravacoes :
             IF gravou
             THEN LET df_resultado == df_parcial(df_conferencia[1])
                      r == salvar_conferencia_supabase(db_conf, db_itens, df_resultado,
                               meta_viagem, meta_loja, meta_data)
                  IN  /\ db_conf' = r.tab
                      /\ db_itens' = r.itens
                      /\ conferencia_salva' = TRUE
                      /\ erro' = "ok"
                      /\ hist' = [hist EXCEPT !.salvos = Append(@,
                             [id |-> r.id, df |-> df_conferencia[1],
                              linhas |-> em_ordem(r.itens, ids_itens(r.itens, r.id))])]
             ELSE /\ erro' = "ErroSalvar"
                  /\ hist' = [hist EXCEPT !.n_falhas = @ + 1]
                  /\ UNCHANGED <<db_conf, db_itens, conferencia_salva>>

\* the browser reloads the page: a new st.session_state, an empty uploader
NovaSessao ==
    /\ hist.sessoes < MaxSessoes
    /\ arquivo' = <<>>
    /\ df_nf' = <<>>
    /\ df_conferencia' = <<>>
    /\ meta_viagem' = "None"
    /\ meta_loja' = "None"
    /\ meta_data' = NoneData
    /\ conferencia_id' = 0
    /\ conferencia_salva' = FALSE
    /\ erro' = "ok"
    /\ hist' = [hist EXCEPT !.sessoes = @ + 1, !.eventos = EmptyBag,
                            !.fresca = FALSE, !.falha_bd = FALSE, !.ult = Ult0]
    /\ UNCHANGED <<db_conf, db_itens, parse_bound, calc, quagga, txs>>

Next ==
    \/ \E f \in Planilhas : CarregarPlanilha(f)
    \/ \E c \in Digitados, q \in Entradas : LancarContagem(c, q)
    \/ SalvarConferencia
    \/ NovaSessao

\* the script as shipped
Spec == Init /\ [][Next]_vars

\* the script with parse_data_viagem bound at line 107
SpecDef == InitDef /\ [][Next]_vars

-----------------------------------------------------------------------------
(* The pure functions on their own: every text of at most MaxLen           *)
(* characters, every pair of quantities of absolute value at most MaxAbs.  *)

Chars == {"0", " ", "7"}
Textos == UNION {[1..n -> Chars] : n \in 0..MaxLen}
Qtds == (0 - MaxAbs)..MaxAbs

InitFn == InitComum /\ parse_bound = TRUE

\* lines 157-166 and 677-690 applied to one pair of quantities
Classificar(qtd_prevista, qtd_contada) ==
    /\ calc' = [Calc0 EXCEPT
           !.op = "status", !.prev = qtd_prevista, !.cont = qtd_contada,
           !.mem = linha_parcial([codigo |-> <<>>, descricao |-> "",
                                  qtd_prevista |-> qtd_prevista,
                                  qtd_contada |-> qtd_contada]).status,
           !.bd = calcular_status_db(qtd_prevista, qtd_contada)]
    /\ UNCHANGED <<db_conf, db_itens, sessao, parse_bound, erro, hist, quagga, txs>>

\* lines 618 and 296-297 applied to one text
Normalizar(txt) ==
    /\ calc' = [Calc0 EXCEPT
           !.op = "norm", !.txt = txt,
           !.n1 = codigo_digitado_norm(txt),
           !.n2 = codigo_digitado_norm(codigo_digitado_norm(txt)),
           !.p1 = codigo_planilha(txt)]
    /\ UNCHANGED <<db_conf, db_itens, sessao, parse_bound, erro, hist, quagga, txs>>

\* date texts of a manifest: one date with dashes, the same with slashes,
\* another day, a day that does not exist, and no date
D25b == [dia |-> 25, mes |-> 11, ano |-> 2025, sep1 |-> "/", sep2 |-> "/"]
D26 == [dia |-> 26, mes |-> 11, ano |-> 2025, sep1 |-> "/", sep2 |-> "/"]
D30f == [dia |-> 30, mes |-> 2, ano |-> 2025, sep1 |-> "/", sep2 |-> "/"]
Datas == {ND, D25, D25b, D26, D30f}
Viagens == {"4711", "4712"}
Lojas == {"L001"}

\* the header rows the table may hold, and the tables of at most MaxConfs rows
Cabecalhos ==
    [viagem : Viagens, loja : Lojas,
     data_viagem : {parse_data_viagem(d) : d \in Datas}]
Tabelas == UNION {[1..n -> Cabecalhos] : n \in 0..MaxConfs}

\* lines 101-133 applied to one table and one identity; the result does not
\* depend on calc, so the call is taken from the initial state only
ObterOuCriar(tab, viagem, loja, data_viagem_str) ==
    /\ calc = Calc0
    /\ LET r == obter_ou_criar_conferencia(tab, viagem, loja, data_viagem_str) IN
       calc' = [Calc0 EXCEPT
           !.op = "obter", !.tab = tab, !.viagem = viagem, !.loja = loja,
           !.data_viagem = parse_data_viagem(data_viagem_str),
           !.id = r.id, !.tab2 = r.tab]
    /\ UNCHANGED <<db_conf, db_itens, sessao, parse_bound, erro, hist, quagga, txs>>

NextFn ==
    \/ \E p \in Qtds, c \in Qtds : Classificar(p, c)
    \/ \E t \in Textos : Normalizar(t)
    \/ \E tab \in Tabelas, v \in Viagens, l \in Lojas, d \in Datas :
          ObterOuCriar(tab, v, l, d)

SpecFn == InitFn /\ [][NextFn]_vars

-----------------------------------------------------------------------------
(* C8: classify is total on (expected_qty, counted_qty), follows the table  *)
(* of the specification (UNEXPECTED_SURPLUS when expected is 0 and counted  *)
(* is positive, otherwise MATCHED, SURPLUS or SHORTAGE by the sign of the   *)
(* difference), never answers SURPLUS for expected 0 and counted > 0, and   *)
(* the in-memory classifier and the store's classifier agree.               *)
C8_Classify ==
    calc.op = "status" =>
        /\ calc.mem \in {OK, FALTANDO, SOBRANDO, SOBRANDO_FORA}
        /\ calc.mem = calc.bd
        /\ (calc.prev = 0 /\ calc.cont > 0) => calc.mem = SOBRANDO_FORA
        /\ ~(calc.prev = 0 /\ calc.cont > 0) =>
              /\ (calc.cont = calc.prev) => calc.mem = OK
              /\ (calc.cont > calc.prev) => calc.mem = SOBRANDO
              /\ (calc.cont < calc.prev) => calc.mem = FALTANDO

C8_Witness ==
    /\ calc.op = "status"
    /\ calc.prev = 0
    /\ calc.cont = MaxAbs
    /\ calc.mem = SOBRANDO_FORA
    /\ calc.bd = SOBRANDO_FORA

(* C10: normalize (trim, then strip leading zeros) is idempotent on every   *)
(* text, and normalize("007") = normalize("7") = "7".                       *)
C10_Idempotente ==
    calc.op = "norm" =>
        /\ calc.n2 = calc.n1
        /\ calc.txt \in {<<"0", "0", "7">>, <<"7">>} => calc.n1 = <<"7">>

-----------------------------------------------------------------------------
(* The session claims, checked under SpecDef.                              *)

RECURSIVE soma_de(_, _)
soma_de(b, S) ==
    IF S = {} THEN 0
    ELSE LET e == CHOOSE x \in S : TRUE
         IN  e[2] * CopiesIn(e, b) + soma_de(b, S \ {e})

\* the sum of the quantities of the session's events of one normalized code
SomaEventos(codigo) ==
    soma_de(hist.eventos, {e \in BagToSet(hist.eventos) : e[1] = codigo})

TemConferencia == df_nf # <<>> /\ df_conferencia # <<>>
DfConf == df_conferencia[1]
Linhas == 1..Len(DfConf)

(* C1: in a session that started from a freshly loaded manifest with no     *)
(* persisted counts, the counted quantity of every line of the working set  *)
(* is the sum of the quantities of the events of that line's code (a        *)
(* function of the bag of events, so the same for every order of them).     *)
C1_SomaPorLinha ==
    (TemConferencia /\ hist.fresca) =>
        \A i \in Linhas : DfConf[i].qtd_contada = SomaEventos(DfConf[i].codigo)

\* the same for the first line of each code only
C1_SomaPrimeiraLinha ==
    (TemConferencia /\ hist.fresca) =>
        \A i \in Linhas :
            (\A j \in 1..(i - 1) : DfConf[j].codigo # DfConf[i].codigo) =>
                DfConf[i].qtd_contada = SomaEventos(DfConf[i].codigo)


\* the counted quantities of the lines of one code, in the order of the lines
contadas(df, codigo) ==
    LET ls == SelectSeq(df, LAMBDA l : l.codigo = codigo)
    IN  [i \in 1..Len(ls) |-> ls[i].qtd_contada]

codigos(df) == {df[i].codigo : i \in 1..Len(df)}

\* every working set a reload of the same manifest can build from the store
Recarregadas ==
    {inicializar(df_nf[1], carregar_itens_conferencia(db_itens, conferencia_id, ord)) :
        ord \in Permutations(1..Cardinality(ids_itens(db_itens, conferencia_id)))}

\* the rows of one conference, in the order of their ids
LinhasBD(id) == em_ordem(db_itens, ids_itens(db_itens, id))

SemCodigoRepetido(df) ==
    \A i, j \in 1..Len(df) : df[i].codigo = df[j].codigo => i = j

(* C2: after count events that were all persisted, the load and merge of    *)
(* the same manifest with the rows of the bound conference rebuilds, for    *)
(* every code, the counted quantity the session holds in memory.            *)
C2_RoundTrip ==
    (TemConferencia /\ conferencia_id # 0 /\ ~hist.falha_bd) =>
        \A w \in Recarregadas :
            \A c \in codigos(w) \cup codigos(DfConf) :
                contadas(w, c) = contadas(DfConf, c)

\* the same when neither the manifest nor the bound conference repeats a code
C2_RoundTripSemRepetidos ==
    (TemConferencia /\ conferencia_id # 0 /\ ~hist.falha_bd
        /\ SemCodigoRepetido(df_nf[1])
        /\ SemCodigoRepetido(LinhasBD(conferencia_id))) =>
        \A w \in Recarregadas :
            \A c \in codigos(w) \cup codigos(DfConf) :
                contadas(w, c) = contadas(DfConf, c)

\* the codes that received an event in this session
CodigosContados == {e[1] : e \in BagToSet(hist.eventos)}

(* C3: in a session whose count events were all persisted, every code that  *)
(* received an event has a row in the bound conference, and that row holds  *)
(* the counted and the expected quantity of the working-set line of the     *)
(* code.                                                                    *)
C3_MemoriaIgualBD ==
    (TemConferencia /\ conferencia_id # 0 /\ ~hist.falha_bd) =>
        \A c \in CodigosContados :
            LET rows == itens_do_codigo(db_itens, conferencia_id, c) IN
            /\ rows # {}
            /\ \A r \in rows : \A i \in Linhas :
                  DfConf[i].codigo = c =>
                      /\ db_itens[r].qtd_contada = DfConf[i].qtd_contada
                      /\ db_itens[r].qtd_prevista = DfConf[i].qtd_prevista

\* the same when neither the manifest nor the bound conference repeats a code
C3_MemoriaIgualBDSemRepetidos ==
    (TemConferencia /\ conferencia_id # 0 /\ ~hist.falha_bd
        /\ SemCodigoRepetido(df_nf[1])
        /\ SemCodigoRepetido(LinhasBD(conferencia_id))) =>
        \A c \in CodigosContados :
            LET rows == itens_do_codigo(db_itens, conferencia_id, c) IN
            /\ rows # {}
            /\ \A r \in rows : \A i \in Linhas :
                  DfConf[i].codigo = c =>
                      /\ db_itens[r].qtd_contada = DfConf[i].qtd_contada
                      /\ db_itens[r].qtd_prevista = DfConf[i].qtd_prevista

\* a step of the count block that counted: the click, its code and quantity
Contou == TemConferencia /\ hist'.n_eventos = hist.n_eventos + 1
              /\ hist'.ult.tipo \in {"existente", "novo"}

(* C4: when a manifest item's code and the entered code are equal after     *)
(* trimming and stripping the leading zeros, the count adds its quantity to *)
(* the line seeded from that item and adds no row to the working set.       *)
C4_CodigoIgualIncrementa ==
    [][Contou =>
        \A i \in 1..Len(df_nf[1]) :
            codigo_digitado_norm(df_nf[1][i].codigo_original) = hist'.ult.codigo =>
                /\ Len(df_conferencia'[1]) = Len(DfConf)
                /\ df_conferencia'[1][i].qtd_contada =
                       DfConf[i].qtd_contada + hist'.ult.qtd]_vars

(* C5: the id of a conference a save created is never the id a session is   *)
(* bound to, and the rows of that conference stay the rows the save wrote.  *)
C5_SnapshotIntocado ==
    \A k \in 1..Len(hist.salvos) :
        /\ conferencia_id # hist.salvos[k].id
        /\ LinhasBD(hist.salvos[k].id) = hist.salvos[k].linhas

(* C6: every call of obter_ou_criar_conferencia with one identity returns   *)
(* the id the first call with that identity returned.                       *)
C6_UmIdPorIdentidade ==
    (df_nf # <<>> /\ conferencia_id # 0) =>
        \A e \in hist.primeiro :
            e.de = identidade(meta_viagem, meta_loja, meta_data) =>
                e.id = conferencia_id

\* the rows of a snapshot without the id of their conference
sem_id(linhas) ==
    [i \in 1..Len(linhas) |->
        [codigo |-> linhas[i].codigo, descricao |-> linhas[i].descricao,
         qtd_prevista |-> linhas[i].qtd_prevista,
         qtd_contada |-> linhas[i].qtd_contada,
         diferenca |-> linhas[i].diferenca, status |-> linhas[i].status]]

(* C7: every save creates a header of its own (an id no earlier save and no *)
(* session's first obter_ou_criar_conferencia returned), and two saves of   *)
(* the same working set write the same rows: one per line, with the line's  *)
(* code, description, quantities, difference and status.                    *)
C7_SalvarDuasVezes ==
    \A k \in 1..Len(hist.salvos) :
        /\ \A e \in hist.primeiro : e.id # hist.salvos[k].id
        /\ Len(hist.salvos[k].linhas) = Len(hist.salvos[k].df)
        /\ \A j \in 1..(k - 1) :
              /\ hist.salvos[j].id # hist.salvos[k].id
              /\ hist.salvos[j].df = hist.salvos[k].df =>
                    sem_id(hist.salvos[j].linhas) = sem_id(hist.salvos[k].linhas)

C7_Witness ==
    /\ Len(hist.salvos) = 2
    /\ hist.salvos[1].df = hist.salvos[2].df
    /\ hist.salvos[1].id # hist.salvos[2].id
    /\ \E i \in 1..Len(hist.salvos[2].linhas) :
          hist.salvos[2].linhas[i].qtd_contada > 0

\* the rows of the bound conference with one code, after the step
RegistradasDepois(codigo) ==
    {r \in 1..Len(db_itens') :
        db_itens'[r].conferencia_id = conferencia_id /\ db_itens'[r].codigo = codigo}

(* C9: a count whose normalized code matches no line of the working set     *)
(* appends one line (expected 0, counted the quantity read, the description *)
(* of the unregistered items, status SOBRANDO fora da planilha) and leaves  *)
(* the other lines alone; when the store commits, the bound conference      *)
(* holds one row of the code with the same values.  A count whose code     *)
(* matches a line adds its quantity to that line and appends nothing.      *)
C9_ItemForaDaPlanilha ==
    [][Contou =>
        LET c == hist'.ult.codigo
            q == hist'.ult.qtd
            antes == DfConf
            depois == df_conferencia'[1]
            achadas == {i \in 1..Len(antes) : antes[i].codigo = c}
        IN  IF achadas = {}
            THEN /\ hist'.ult.tipo = "novo"
                 /\ Len(depois) = Len(antes) + 1
                 /\ SubSeq(depois, 1, Len(antes)) = antes
                 /\ depois[Len(depois)].codigo = c
                 /\ depois[Len(depois)].descricao = NAO_CADASTRADO
                 /\ depois[Len(depois)].qtd_prevista = 0
                 /\ depois[Len(depois)].qtd_contada = q
                 /\ linha_parcial(depois[Len(depois)]).status = SOBRANDO_FORA
                 /\ (hist'.ult.gravou /\ conferencia_id # 0) =>
                       /\ Cardinality(RegistradasDepois(c)) = 1
                       /\ \A r \in RegistradasDepois(c) :
                             /\ db_itens'[r].descricao = NAO_CADASTRADO
                             /\ db_itens'[r].qtd_prevista = 0
                             /\ db_itens'[r].qtd_contada = q
                             /\ db_itens'[r].diferenca = q
                             /\ db_itens'[r].status = SOBRANDO_FORA
            ELSE /\ hist'.ult.tipo = "existente"
                 /\ Len(depois) = Len(antes)
                 /\ \E i \in achadas :
                       depois = [antes EXCEPT ![i].qtd_contada = @ + q]]_vars

\* a second count of a code the manifest does not hold, both committed
C9_Witness ==
    /\ TemConferencia
    /\ hist.ult.tipo = "existente"
    /\ hist.ult.gravou
    /\ hist.ult.codigo = <<"9">>
    /\ \E i \in Linhas :
          /\ DfConf[i].codigo = <<"9">>
          /\ DfConf[i].descricao = NAO_CADASTRADO
          /\ DfConf[i].qtd_prevista = 0
          /\ DfConf[i].qtd_contada = MaxQtd + 1
          /\ \E r \in itens_do_codigo(db_itens, conferencia_id, <<"9">>) :
                db_itens[r].qtd_contada = MaxQtd + 1

\* a step that is a click on the add button in a session with a working set
Clicou == TemConferencia /\ hist'.n_eventos = hist.n_eventos + 1

(* C11: a count event removes no line of the working set and decreases no   *)
(* quantity: every line present before the step is at the same position     *)
(* after it, with the same code, the same expected quantity and a counted   *)
(* quantity at least as large.                                              *)
C11_NuncaDiminui ==
    [][Clicou =>
        /\ df_conferencia' # <<>>
        /\ Len(df_conferencia'[1]) >= Len(DfConf)
        /\ \A i \in Linhas :
              /\ df_conferencia'[1][i].codigo = DfConf[i].codigo
              /\ df_conferencia'[1][i].qtd_prevista >= DfConf[i].qtd_prevista
              /\ df_conferencia'[1][i].qtd_contada >= DfConf[i].qtd_contada]_vars

\* a line that two counts of the session incremented
C11_Witness ==
    /\ TemConferencia
    /\ hist.n_eventos = 2
    /\ hist.ult.tipo = "existente"
    /\ \E i \in Linhas :
          /\ DfConf[i].codigo = hist.ult.codigo
          /\ DfConf[i].qtd_prevista > 0
          /\ DfConf[i].qtd_contada > hist.ult.qtd

\* a text of whitespace only, the empty text included
EmBranco(codigo) == \A i \in 1..Len(codigo) : codigo[i] = " "

(* C12: a click on the add button with an empty code (no character, or      *)
(* whitespace only) changes neither the working set nor any row of the      *)
(* store.                                                                   *)
C12_CodigoVazio ==
    [][\A c \in Digitados : \A q \in Entradas :
          (TemConferencia /\ EmBranco(c) /\ LancarContagem(c, q)) =>
              UNCHANGED <<df_conferencia, db_itens, db_conf>>]_vars

\* an empty code turned away in a session that already persisted a count
C12_Witness ==
    /\ TemConferencia
    /\ hist.ult.tipo = "vazio"
    /\ hist.n_eventos = 2
    /\ \E i \in Linhas : DfConf[i].qtd_contada > 0
    /\ LinhasBD(conferencia_id) # <<>>

\* the counted quantities a step adds to the working set: per line kept,
\* the growth of its counted quantity; per line appended, its counted quantity
Somadas ==
    {df_conferencia'[1][i].qtd_contada
        - (IF i <= Len(DfConf) THEN DfConf[i].qtd_contada ELSE 0) :
            i \in 1..Len(df_conferencia'[1])}

\* the same for the rows of the store
SomadasBD ==
    {db_itens'[r].qtd_contada
        - (IF r <= Len(db_itens) THEN db_itens[r].qtd_contada ELSE 0) :
            r \in 1..Len(db_itens')}

(* C13: a click on the add button with a quantity below 1 is turned away    *)
(* before the count block (no such step changes the working set or the      *)
(* store), and every quantity a click adds to a line of the working set or  *)
(* to a row of the bound conference is at least 1.                          *)
C13_QtdMinima ==
    [][/\ \A c \in Digitados : \A q \in Entradas :
             (q <= 0 /\ LancarContagem(c, q)) =>
                 UNCHANGED <<df_conferencia, db_itens, db_conf>>
       /\ Clicou =>
             /\ \A x \in Somadas : x = 0 \/ x >= 1
             /\ \A x \in SomadasBD : x = 0 \/ x >= 1
             /\ hist'.ult.tipo \in {"existente", "novo"} =>
                   /\ hist'.ult.qtd >= 1
                   /\ hist'.ult.qtd \in Somadas]_vars

\* a count of the greatest quantity, committed
C13_Witness ==
    /\ TemConferencia
    /\ hist.ult.tipo = "existente"
    /\ hist.ult.qtd = MaxQtd
    /\ hist.ult.gravou
    /\ \E r \in itens_do_codigo(db_itens, conferencia_id, hist.ult.codigo) :
          db_itens[r].qtd_contada = MaxQtd

(* C14: the upload of a file in which no cell holds "CodSap" (in any case)  *)
(* ends with the parse error and leaves the manifest, the working set, the  *)
(* trip metadata and the bound conference id of the session as they were,   *)
(* and writes nothing to the store (no header, no row).                     *)
C14_SemCodSap ==
    [][\A f \in Planilhas :
          (header_row_candidates(f) = {} /\ CarregarPlanilha(f)) =>
              /\ erro' = "ParseError"
              /\ UNCHANGED <<df_nf, df_conferencia, meta_viagem, meta_loja,
                             meta_data, conferencia_id, db_conf, db_itens>>]_vars

\* the failed upload in a session that follows one with persisted counts
C14_Witness ==
    /\ arquivo # <<>>
    /\ header_row_candidates(arquivo[1]) = {}
    /\ erro = "ParseError"
    /\ df_nf = <<>>
    /\ conferencia_id = 0
    /\ db_conf # <<>>
    /\ db_itens # <<>>

(* C15: when registrar_contagem_db raises for a count, the working set      *)
(* already holds the quantity of the count, the two tables of the store are *)
(* exactly as before the click, and the run ends with the exception.        *)
C15_FalhaAoGravar ==
    [][(Contou /\ ~hist'.ult.gravou) =>
          /\ hist'.ult.qtd \in Somadas
          /\ \A x \in Somadas : x \in {0, hist'.ult.qtd}
          /\ UNCHANGED <<db_itens, db_conf>>
          /\ erro' = "BD"]_vars

\* a first count committed, a second one of the same code that failed
C15_Witness ==
    /\ TemConferencia
    /\ hist.ult.tipo = "existente"
    /\ ~hist.ult.gravou
    /\ erro = "BD"
    /\ \E i \in Linhas :
          /\ DfConf[i].codigo = hist.ult.codigo
          /\ \E r \in itens_do_codigo(db_itens, conferencia_id, hist.ult.codigo) :
                DfConf[i].qtd_contada = db_itens[r].qtd_contada + hist.ult.qtd

\* a step of the upload block that built the working set
Inicializou == df_conferencia = <<>> /\ df_conferencia' # <<>>

\* the codes and counted quantities of a sequence of rows, as a bag
contagens(linhas) ==
    LET pares == {<<linhas[i].codigo, linhas[i].qtd_contada>> : i \in 1..Len(linhas)}
    IN  [p \in pares |-> Cardinality({i \in 1..Len(linhas) :
                            <<linhas[i].codigo, linhas[i].qtd_contada>> = p})]

\* what C16 asks of the working set w built from the manifest nf and the
\* persisted rows bd
inicializado(nf, bd, w) ==
    /\ Len(w) >= Len(nf)
    /\ \A i \in 1..Len(nf) :
          /\ w[i].codigo = nf[i].codigo
          /\ w[i].descricao = nf[i].descricao
          /\ w[i].qtd_prevista = nf[i].qtd_prevista
          /\ (\A r \in 1..Len(bd) : bd[r].codigo # nf[i].codigo) => w[i].qtd_contada = 0
          /\ \A r \in 1..Len(bd) :
                bd[r].codigo = nf[i].codigo => w[i].qtd_contada = bd[r].qtd_contada
    /\ \A i \in (Len(nf) + 1)..Len(w) : w[i].qtd_prevista = 0
    /\ contagens(SubSeq(w, Len(nf) + 1, Len(w))) =
           contagens(SelectSeq(bd, LAMBDA r : r.codigo \notin codigos(nf)))

(* C16: the working set the upload block builds holds one line per manifest *)
(* row, in the order of the manifest, counted 0 when the bound conference   *)
(* has no row of the code and counted as persisted when it has one, and     *)
(* after them one line, expected 0 and counted as persisted, for every row  *)
(* of the conference whose code the manifest does not hold.                 *)
C16_Inicializar ==
    [][Inicializou =>
          inicializado(df_nf'[1], em_ordem(db_itens', ids_itens(db_itens', conferencia_id')),
                       df_conferencia'[1])]_vars

\* the same when the bound conference holds no two rows of one code
C16_InicializarSemRepetidos ==
    [][(Inicializou /\ SemCodigoRepetido(
               em_ordem(db_itens', ids_itens(db_itens', conferencia_id')))) =>
          inicializado(df_nf'[1], em_ordem(db_itens', ids_itens(db_itens', conferencia_id')),
                       df_conferencia'[1])]_vars

(* C17: the working set of a session holds at most one line per normalized  *)
(* code.                                                                    *)
C17_UmaLinhaPorCodigo ==
    TemConferencia => SemCodigoRepetido(DfConf)

\* the conferences a save created, and the others (obter_ou_criar_conferencia
\* created them)
Snapshots == {hist.salvos[k].id : k \in 1..Len(hist.salvos)}
Vivas == (1..Len(db_conf)) \ Snapshots

prevista_passada(df, codigo) ==
    LET achadas == {i \in 1..Len(df) : df[i].codigo = codigo}
    IN  IF achadas = {} THEN 0 ELSE df[Min(achadas)].qtd_prevista

(* C19: every row of the items table, written by registrar_contagem_db or   *)
(* by salvar_conferencia_supabase, has diferenca = qtd_contada -            *)
(* qtd_prevista and status = the classification of its two quantities; and  *)
(* a committed count leaves in the bound conference a row of the code       *)
(* whose expected quantity is the one the count block passed.               *)
C19_LinhaCoerente ==
    [][/\ \A r \in 1..Len(db_itens') :
             /\ db_itens'[r].diferenca =
                    db_itens'[r].qtd_contada - db_itens'[r].qtd_prevista
             /\ db_itens'[r].status =
                    calcular_status_db(db_itens'[r].qtd_prevista, db_itens'[r].qtd_contada)
       /\ (Contou /\ hist'.ult.gravou /\ conferencia_id # 0) =>
             \E r \in RegistradasDepois(hist'.ult.codigo) :
                 /\ r > Len(db_itens) \/ db_itens'[r] # db_itens[r]
                 /\ db_itens'[r].qtd_prevista =
                        prevista_passada(DfConf, hist'.ult.codigo)]_vars

\* a committed count on a row whose expected quantity came from another
\* manifest of the same trip
C19_Witness ==
    /\ TemConferencia
    /\ hist.sessoes = 2
    /\ hist.ult.tipo = "existente"
    /\ hist.ult.gravou
    /\ \E r \in itens_do_codigo(db_itens, conferencia_id, hist.ult.codigo) :
          /\ db_itens[r].qtd_prevista = prevista_passada(DfConf, hist.ult.codigo)
          /\ db_itens[r].qtd_prevista > 0
          /\ db_itens[r].qtd_contada > db_itens[r].qtd_prevista
          /\ db_itens[r].status = SOBRANDO

(* C20: no line of the working set has expected quantity 0 and counted      *)
(* quantity 0.                                                              *)
C20_SemLinhaZeroZero ==
    TemConferencia =>
        \A i \in Linhas : ~(DfConf[i].qtd_prevista = 0 /\ DfConf[i].qtd_contada = 0)

(* C21: every row of the manifest the session holds has an expected         *)
(* quantity of at least 0, and every line of the working set has expected   *)
(* and counted quantities of at least 0.                                    *)
C21_QuantidadesNaoNegativas ==
    /\ df_nf # <<>> =>
          \A i \in 1..Len(df_nf[1]) : df_nf[1][i].qtd_prevista >= 0
    /\ TemConferencia =>
          \A i \in Linhas : DfConf[i].qtd_prevista >= 0 /\ DfConf[i].qtd_contada >= 0

\* the same for the counted quantities only
C21_ContadasNaoNegativas ==
    TemConferencia => \A i \in Linhas : DfConf[i].qtd_contada >= 0

\* the codes of a sequence of lines or rows, in their order
seq_codigos(linhas) == [i \in 1..Len(linhas) |-> linhas[i].codigo]

\* df_parcial holds the lines of the working set df in their order, each
\* with its difference and the classification of its two quantities
parcial_de(df) ==
    LET parcial == df_parcial(df) IN
    /\ Len(parcial) = Len(df)
    /\ \A i \in 1..Len(df) :
          /\ parcial[i].codigo = df[i].codigo
          /\ parcial[i].qtd_prevista = df[i].qtd_prevista
          /\ parcial[i].qtd_contada = df[i].qtd_contada
          /\ parcial[i].diferenca = df[i].qtd_contada - df[i].qtd_prevista
          /\ parcial[i].status =
                 calcular_status_db(df[i].qtd_prevista, df[i].qtd_contada)

\* a count keeps the order of the lines and puts a new code last
ordem_na_contagem ==
    Contou =>
        \/ seq_codigos(df_conferencia'[1]) = seq_codigos(DfConf)
        \/ seq_codigos(df_conferencia'[1]) =
               Append(seq_codigos(DfConf), hist'.ult.codigo)

\* a load puts the manifest rows first, in their order, and after them the
\* other codes of the bound conference in the order their rows were inserted
ordem_na_carga ==
    Inicializou =>
        seq_codigos(df_conferencia'[1]) =
            seq_codigos(df_nf'[1]) \o
            seq_codigos(SelectSeq(
                em_ordem(db_itens', ids_itens(db_itens', conferencia_id')),
                LAMBDA r : r.codigo \notin codigos(df_nf'[1])))

(* C22: df_parcial holds every line of the working set with diferenca =     *)
(* counted - expected and the status of the classification, in the order of *)
(* insertion: the manifest rows in the order of the manifest, then the      *)
(* codes outside the manifest in the order their first count arrived.       *)
C22_Parcial ==
    [][/\ df_conferencia' # <<>> => parcial_de(df_conferencia'[1])
       /\ ordem_na_contagem
       /\ ordem_na_carga]_vars

\* the same within one session: the loads left out
C22_ParcialNaSessao ==
    [][/\ df_conferencia' # <<>> => parcial_de(df_conferencia'[1])
       /\ ordem_na_contagem]_vars

(* C23: the run that processes the upload of a manifest the parser accepts, *)
(* with no failure of the store, ends with the working set built from the   *)
(* manifest and a conference id bound to the session.                       *)
C23_CargaCompleta ==
    [][\A f \in Planilhas :
          (~erro_planilha(f) /\ CarregarPlanilha(f) /\ erro' # "BD") =>
              /\ erro' = "ok"
              /\ df_nf' = <<carregar_planilha_nf(f).df_nf>>
              /\ df_conferencia' # <<>>
              /\ conferencia_id' # 0]_vars

(* C24: obter_ou_criar_conferencia takes a null date as a value to match: a  *)
(* call with a null date returns only a header of the same trip and store    *)
(* whose date is null, a call with a date returns only a header with that    *)
(* date, the header returned is the one of greatest id among those, and      *)
(* without one a new header with the identity of the call is appended.       *)
mesma_identidade(h, viagem, loja, data_viagem) ==
    /\ h.viagem = viagem
    /\ h.loja = loja
    /\ (data_viagem = NULL => h.data_viagem = NULL)
    /\ (data_viagem # NULL => h.data_viagem # NULL /\ h.data_viagem = data_viagem)

C24_DataNulaNaoECoringa ==
    calc.op = "obter" =>
        LET S == {i \in 1..Len(calc.tab) :
                    mesma_identidade(calc.tab[i], calc.viagem, calc.loja,
                                     calc.data_viagem)}
        IN  IF S # {}
            THEN /\ calc.id \in S
                 /\ \A i \in S : i <= calc.id
                 /\ calc.tab2 = calc.tab
            ELSE /\ calc.id = Len(calc.tab) + 1
                 /\ Len(calc.tab2) = Len(calc.tab) + 1
                 /\ SubSeq(calc.tab2, 1, Len(calc.tab)) = calc.tab
                 /\ mesma_identidade(calc.tab2[calc.id], calc.viagem, calc.loja,
                                     calc.data_viagem)

\* a call with a null date on a table whose newest header of the trip and
\* store carries a date, and that holds two older headers with a null date
C24_Witness ==
    /\ calc.op = "obter"
    /\ calc.data_viagem = NULL
    /\ Len(calc.tab) = 3
    /\ \A i \in 1..3 : calc.tab[i].viagem = calc.viagem
    /\ calc.tab[1].data_viagem = NULL
    /\ calc.tab[2].data_viagem = NULL
    /\ calc.tab[3].data_viagem # NULL
    /\ calc.id = 2

(* C27: a count of the normalized code c changes, in the working set, only   *)
(* the counted quantity of one line of code c, or appends one line of code   *)
(* c; the code, description and expected quantity of every line, the lines   *)
(* of other codes, the manifest, the trip metadata, the bound conference id  *)
(* and the headers of the store stay as they were; in the items table the    *)
(* only row written is one row of the bound conference and code c.           *)
C27_SoALinhaDoCodigo ==
    [][Contou =>
        LET c == hist'.ult.codigo
            antes == DfConf
            depois == df_conferencia'[1]
            n == Len(antes)
            m == Len(db_itens)
        IN  /\ df_nf' = df_nf
            /\ meta_viagem' = meta_viagem
            /\ meta_loja' = meta_loja
            /\ meta_data' = meta_data
            /\ conferencia_id' = conferencia_id
            /\ db_conf' = db_conf
            /\ Len(depois) \in {n, n + 1}
            /\ \A i \in 1..n :
                  /\ depois[i].codigo = antes[i].codigo
                  /\ depois[i].codigo_original = antes[i].codigo_original
                  /\ depois[i].descricao = antes[i].descricao
                  /\ depois[i].qtd_prevista = antes[i].qtd_prevista
                  /\ antes[i].codigo # c => depois[i] = antes[i]
            /\ Cardinality({i \in 1..n : depois[i] # antes[i]}) =
                  (IF Len(depois) = n THEN 1 ELSE 0)
            /\ Len(depois) = n + 1 => depois[n + 1].codigo = c
            /\ Len(db_itens') \in {m, m + 1}
            /\ \A r \in 1..m :
                  /\ db_itens'[r].conferencia_id = db_itens[r].conferencia_id
                  /\ db_itens'[r].codigo = db_itens[r].codigo
                  /\ (db_itens[r].conferencia_id # conferencia_id \/ db_itens[r].codigo # c)
                        => db_itens'[r] = db_itens[r]
            /\ Cardinality({r \in 1..m : db_itens'[r] # db_itens[r]}) +
                  (Len(db_itens') - m) <= 1
            /\ Len(db_itens') = m + 1 =>
                  /\ db_itens'[m + 1].conferencia_id = conferencia_id
                  /\ db_itens'[m + 1].codigo = c]_vars

\* a persisted count of a code of the working set, in a session whose bound
\* conference holds a row of that code and a row of another code
C27_Witness ==
    /\ TemConferencia
    /\ hist.ult.tipo = "existente"
    /\ hist.ult.gravou
    /\ Len(DfConf) >= 2
    /\ \E r1, r2 \in ids_itens(db_itens, conferencia_id) :
          /\ db_itens[r1].codigo = hist.ult.codigo
          /\ db_itens[r2].codigo # hist.ult.codigo
          /\ db_itens[r1].qtd_contada >= hist.ult.qtd

(* C28: at the end of every run the session holds the manifest's items if   *)
(* and only if it holds the working set and a bound conference id: a run    *)
(* whose upload block fails in obter_ou_criar_conferencia or in             *)
(* carregar_itens_conferencia leaves the session without a manifest.        *)
C28_TudoOuNada ==
    (df_nf # <<>>) <=> (df_conferencia # <<>> /\ conferencia_id # 0)

(* C28, the part that holds: a working set is never held without the        *)
(* manifest's items and a bound conference id.                              *)
C28_ConferenciaTemPlanilha ==
    (df_conferencia # <<>>) => (df_nf # <<>> /\ conferencia_id # 0)

(* C29: no line of the working set and no row of the items table has an     *)
(* empty normalized code; a count whose code is empty after normalization   *)
(* (such as "0") creates and updates no line.                               *)
C29_SemCodigoVazio ==
    /\ TemConferencia => \A i \in Linhas : DfConf[i].codigo # <<>>
    /\ \A r \in 1..Len(db_itens) : db_itens[r].codigo # <<>>

(* C29, the part that holds: the manifest gives the working set no line     *)
(* with an empty code (lines 313-314 drop the cell "00").                   *)
C29_PlanilhaSemCodigoVazio ==
    df_nf # <<>> => \A i \in 1..Len(df_nf[1]) : df_nf[1][i].codigo # <<>>

-----------------------------------------------------------------------------
(* The camera script (lines 503-605).  Quagga calls the onDetected handler  *)
(* for every frame it decodes; the handler and the callbacks of setTimeout  *)
(* run one at a time on the page's event loop.  quagga.timers holds the     *)
(* time each pending callback is due, quagga.agora the clock in ms, and     *)
(* quagga.log every detection with its time and whether it reached the      *)
(* code input, and every callback that ran.                                 *)

\* line 598: the delay of setTimeout
reset_ms == 1500

\* the codes Quagga decodes; "" is a result without a code (line 586)
Codigos == {"789", "790", ""}

\* the time that passes between two events of the page, in ms
Intervalos == {500, 1000}

sem(seq, k) == [i \in 1..(Len(seq) - 1) |-> IF i < k THEN seq[i] ELSE seq[i + 1]]

n_deteccoes == Cardinality({i \in 1..Len(quagga.log) : quagga.log[i].tipo = "det"})

\* lines 585-599: Quagga.onDetected(function(data) {...})
Detectar(code) ==
    /\ n_deteccoes < MaxDeteccoes
    /\ UNCHANGED <<db_conf, db_itens, sessao, parse_bound, erro, hist, calc, txs>>
    /\ IF code = ""
       THEN UNCHANGED quagga
       ELSE IF code = quagga.lastCode
       THEN quagga' = [quagga EXCEPT
                !.log = Append(@, [tipo |-> "det", code |-> code,
                                   t |-> quagga.agora, fwd |-> FALSE])]
       ELSE quagga' = [quagga EXCEPT
                !.lastCode = code,
                !.input = code,
                !.timers = Append(@, quagga.agora + reset_ms),
                !.log = Append(@, [tipo |-> "det", code |-> code,
                                   t |-> quagga.agora, fwd |-> TRUE])]

\* line 598: function() { lastCode = ""; } runs when its delay has passed
Disparar(k) ==
    /\ k \in 1..Len(quagga.timers)
    /\ quagga.timers[k] <= quagga.agora
    /\ quagga' = [quagga EXCEPT
           !.lastCode = "",
           !.timers = sem(@, k),
           !.log = Append(@, [tipo |-> "timer", code |-> "", t |-> quagga.agora,
                              fwd |-> FALSE])]
    /\ UNCHANGED <<db_conf, db_itens, sessao, parse_bound, erro, hist, calc, txs>>

\* time passes; a callback that is due runs before the clock moves on
Passar(d) ==
    /\ quagga.agora + d <= MaxTempo
    /\ \A k \in 1..Len(quagga.timers) : quagga.timers[k] >= quagga.agora + d
    /\ quagga' = [quagga EXCEPT !.agora = @ + d]
    /\ UNCHANGED <<db_conf, db_itens, sessao, parse_bound, erro, hist, calc, txs>>

NextCamera ==
    \/ \E code \in Codigos : Detectar(code)
    \/ \E k \in 1..MaxDeteccoes : Disparar(k)
    \/ \E d \in Intervalos : Passar(d)

\* the page as loaded: no detection yet
InitCamera == InitComum /\ parse_bound = TRUE

SpecCamera == InitCamera /\ [][NextCamera]_vars

Deteccoes == {i \in 1..Len(quagga.log) : quagga.log[i].tipo = "det"}

\* detections i and j of one code, less than reset_ms apart, with no
\* detection of another code between them
Repetida(i, j) ==
    /\ i < j
    /\ quagga.log[i].code = quagga.log[j].code
    /\ quagga.log[j].t - quagga.log[i].t < reset_ms
    /\ \A k \in Deteccoes : (i < k /\ k < j) => quagga.log[k].code = quagga.log[i].code

(* C26: of two detections of the same code less than 1500 ms apart, with no *)
(* detection of another code between them, the second never reaches the     *)
(* code input when the first did, whatever the order in which detections    *)
(* and reset callbacks run.                                                  *)
C26_SemDuplicata ==
    \A i, j \in Deteccoes :
        (Repetida(i, j) /\ quagga.log[i].fwd) => ~quagga.log[j].fwd

(* C26, the part that holds: a detection of the code of the detection       *)
(* before it, with no reset callback run between the two, does not reach    *)
(* the code input.                                                           *)
C26_SemDuplicataSemReset ==
    \A i, j \in Deteccoes :
        (/\ i < j
         /\ quagga.log[i].code = quagga.log[j].code
         /\ \A k \in (i + 1)..(j - 1) :
               quagga.log[k].tipo = "det" /\ quagga.log[k].code = quagga.log[i].code)
        => ~quagga.log[j].fwd

-----------------------------------------------------------------------------
(* Two sessions on one store.  Each browser session runs the script on its  *)
(* own st.session_state and its own connection; the store runs their        *)
(* transactions at READ COMMITTED: a select sees what is committed when it   *)
(* runs, and the insert or update that ends a transaction commits with it.  *)
(* Both sessions upload the same manifest.                                  *)

F1 == Planilha(CabLoja, <<D25>>, <<L007, L8>>)
CodigosSessoes == { <<"7">>, <<"9">> }
QtdsSessoes == {1}

nf1 == planilhas_lidas[F1].df_nf
viagem1 == ou_nd(planilhas_lidas[F1].meta_viagem)
loja1 == ou_nd(planilhas_lidas[F1].meta_loja)
data1 == data_ou_nd(planilhas_lidas[F1].meta_data)

outra(s) == 3 - s

fora_de_txs == <<db_itens, sessao, parse_bound, erro, hist, calc, quagga>>

\* lines 359-388 up to the select of lines 112-121: the upload block parses
\* the manifest and obter_ou_criar_conferencia looks for the header
ObterSelect(s) ==
    /\ txs.ses[s].pc = "inicio"
    /\ LET achadas == conferencias_iguais(db_conf, viagem1, loja1,
                                          parse_data_viagem(data1))
       IN  txs' = [txs EXCEPT
               !.ses[s].pc = IF achadas # {} THEN "carregar" ELSE "inserir",
               !.ses[s].conferencia_id = IF achadas # {} THEN Max(achadas) ELSE 0,
               !.corrida = @ \/ (achadas = {} /\ txs.ses[outra(s)].pc = "inserir"),
               !.depois = IF txs.correu /\ achadas # {}
                          THEN @ \cup {Max(achadas)} ELSE @,
               !.apos = IF txs.correu THEN @ \cup {s} ELSE @ \ {s}]
    /\ UNCHANGED <<db_conf, fora_de_txs>>

\* lines 126-133 and 388: no header was found, one is inserted
ObterInsert(s) ==
    /\ txs.ses[s].pc = "inserir"
    /\ Len(db_conf) < MaxConfs
    /\ db_conf' = Append(db_conf, [viagem |-> viagem1, loja |-> loja1,
                                   data_viagem |-> parse_data_viagem(data1)])
    /\ txs' = [txs EXCEPT
           !.ses[s].pc = "carregar",
           !.ses[s].conferencia_id = Len(db_conf) + 1,
           !.correu = @ \/ (txs.corrida /\ txs.ses[outra(s)].pc # "inserir"),
           !.depois = IF txs.correu THEN @ \cup {Len(db_conf) + 1} ELSE @]
    /\ UNCHANGED fora_de_txs

\* lines 391-421: the rows of the bound conference, merged with the manifest
Carregar(s) ==
    /\ txs.ses[s].pc = "carregar"
    /\ \E ord \in Permutations(1..Cardinality(ids_itens(db_itens,
                                       txs.ses[s].conferencia_id))) :
          LET df_itens_db == carregar_itens_conferencia(db_itens,
                                 txs.ses[s].conferencia_id, ord)
              df_conf == inicializar(nf1, df_itens_db)
          IN  txs' = [txs EXCEPT
                  !.ses[s].pc = "pronta",
                  !.ses[s].df = df_conf,
                  !.ses[s].carga = <<[bd |-> df_itens_db, w |-> df_conf]>>]
    /\ UNCHANGED <<db_conf, fora_de_txs>>

\* lines 616-662 up to the select of lines 179-185: the count block adds to
\* the working set and registrar_contagem_db reads the row of the code
RegistrarSelect(s, codigo_digitado, qtd_lida) ==
    /\ txs.ses[s].pc = "pronta"
    /\ txs.n_contagens < MaxContagens
    /\ LET df_conf == txs.ses[s].df
           id == txs.ses[s].conferencia_id
           norm == codigo_digitado_norm(codigo_digitado)
           mask == {i \in 1..Len(df_conf) : df_conf[i].codigo = norm}
           achados == itens_do_codigo(db_itens, id, norm)
           o == txs.ses[outra(s)]
       IN  \E item_id \in (IF achados = {} THEN {0} ELSE achados) :
             txs' = [txs EXCEPT
                 !.n_contagens = @ + 1,
                 !.sobrepos = @ \/ (o.pc = "gravar" /\ o.conferencia_id = id
                                     /\ o.lido.codigo = norm),
                 !.ses[s].pc = "gravar",
                 !.ses[s].df = IF mask # {}
                               THEN somar_contagem(df_conf, Min(mask), qtd_lida)
                               ELSE Append(df_conf, nova_linha(codigo_digitado, qtd_lida)),
                 !.ses[s].lido =
                     [codigo |-> norm,
                      descricao |-> IF mask # {} THEN df_conf[Min(mask)].descricao
                                    ELSE NAO_CADASTRADO,
                      qtd_prevista |-> IF mask # {} THEN df_conf[Min(mask)].qtd_prevista
                                       ELSE 0,
                      qtd_add |-> qtd_lida,
                      item_id |-> item_id,
                      qtd_atual |-> IF item_id = 0 THEN 0
                                    ELSE db_itens[item_id].qtd_contada]]
    /\ UNCHANGED <<db_conf, fora_de_txs>>

\* lines 186-208 and the commit of line 176: the update writes the quantity
\* computed from the row as the select read it; the insert adds a row
RegistrarWrite(s) ==
    /\ txs.ses[s].pc = "gravar"
    /\ LET r == txs.ses[s].lido
           id == txs.ses[s].conferencia_id
           lidos == IF r.item_id = 0 THEN db_itens
                    ELSE [db_itens EXCEPT ![r.item_id].qtd_contada = r.qtd_atual]
       IN  /\ db_itens' = registrar_contagem_db(lidos, id, r.codigo, r.descricao,
                               r.qtd_prevista, r.qtd_add, r.item_id)
           /\ txs' = [txs EXCEPT
                  !.ses[s].pc = "pronta",
                  !.ses[s].lido = Reg0,
                  !.total = @ (+) [e \in {<<id, r.codigo>>} |-> r.qtd_add]]
    /\ UNCHANGED <<db_conf, sessao, parse_bound, erro, hist, calc, quagga>>

RECURSIVE bag_de(_, _)
bag_de(linhas, id) ==
    IF linhas = <<>> THEN EmptyBag
    ELSE (IF Head(linhas).qtd_contada > 0
          THEN [e \in {<<id, Head(linhas).codigo>>} |-> Head(linhas).qtd_contada]
          ELSE EmptyBag) (+) bag_de(Tail(linhas), id)

\* lines 858-873: the save button of a session
SalvarSnapshot(s) ==
    /\ txs.ses[s].pc = "pronta"
    /\ Len(db_conf) < MaxConfs
    /\ LET df_resultado == df_parcial(txs.ses[s].df)
           r == salvar_conferencia_supabase(db_conf, db_itens, df_resultado,
                    viagem1, loja1, data1)
       IN  /\ db_conf' = r.tab
           /\ db_itens' = r.itens
           /\ txs' = [txs EXCEPT !.salvou = TRUE,
                                 !.total = @ (+) bag_de(txs.ses[s].df, r.id)]
    /\ UNCHANGED <<sessao, parse_bound, erro, hist, calc, quagga>>

\* the browser of a session reloads the page: a new st.session_state
Recarregar(s) ==
    /\ txs.ses[s].pc = "pronta"
    /\ txs.n_recargas < MaxRecargas
    /\ txs' = [txs EXCEPT !.ses[s] = Sessao0, !.n_recargas = @ + 1]
    /\ UNCHANGED <<db_conf, fora_de_txs>>

NextSessoes ==
    \/ \E s \in 1..2 : ObterSelect(s)
    \/ \E s \in 1..2 : ObterInsert(s)
    \/ \E s \in 1..2 : Carregar(s)
    \/ \E s \in 1..2, c \in CodigosSessoes, q \in QtdsSessoes : RegistrarSelect(s, c, q)
    \/ \E s \in 1..2 : RegistrarWrite(s)
    \/ \E s \in 1..2 : SalvarSnapshot(s)
    \/ \E s \in 1..2 : Recarregar(s)

\* an empty store and two new sessions
InitSessoes == InitComum /\ parse_bound = TRUE

SpecSessoes == InitSessoes /\ [][NextSessoes]_vars

soma_bd(id, codigo) ==
    LET S == itens_do_codigo(db_itens, id, codigo)
        RECURSIVE soma(_)
        soma(T) == IF T = {} THEN 0
                   ELSE LET r == CHOOSE x \in T : TRUE
                        IN  db_itens[r].qtd_contada + soma(T \ {r})
    IN  soma(S)

(* C25: once two overlapping calls of obter_ou_criar_conferencia for one    *)
(* identity have both completed, every later call for that identity, from   *)
(* either session, returns the same id, and the working set a later load    *)
(* builds holds, for every manifest item, the counted quantity of the rows   *)
(* of that id with the item's code.                                         *)
C25_Converge ==
    txs.correu =>
        /\ Cardinality(txs.depois) <= 1
        /\ \A s \in txs.apos :
              txs.ses[s].carga # <<>> =>
                  inicializado(nf1, txs.ses[s].carga[1].bd, txs.ses[s].carga[1].w)

(* C25, the part that holds: while no snapshot is saved, every call after   *)
(* the two overlapping ones returns the same id.                            *)
C25_ConvergeSemSnapshot ==
    (txs.correu /\ ~txs.salvou) => Cardinality(txs.depois) <= 1

(* C30: when no transaction of registrar_contagem_db is in progress, the    *)
(* counted quantity persisted for every conference and code is the sum of   *)
(* the quantities of the transactions committed for them, also when two      *)
(* of those transactions overlapped.                                        *)
C30_SemAtualizacaoPerdida ==
    (\A s \in 1..2 : txs.ses[s].pc # "gravar") =>
        \A id \in 1..Len(db_conf), c \in CodigosSessoes \cup {<<"8">>} :
            soma_bd(id, c) = CopiesIn(<<id, c>>, txs.total)

(* C30, the part that holds: without two overlapping transactions for one   *)
(* conference and code, no quantity is lost.                                *)
C30_SemSobreposicao ==
    (~txs.sobrepos /\ \A s \in 1..2 : txs.ses[s].pc # "gravar") =>
        \A id \in 1..Len(db_conf), c \in CodigosSessoes \cup {<<"8">>} :
            soma_bd(id, c) = CopiesIn(<<id, c>>, txs.total)

====
